---- MODULE Spec2Model ----
(***************************************************************************)
(* DisasterLink: authorization and access-scoping engine.                  *)
(*                                                                         *)
(* The tables of the Supabase schema are the state; every RPC, trigger and *)
(* row-level-security policy is translated from its SQL, and the service   *)
(* functions of src/lib/services from their TypeScript.  SQL's three-      *)
(* valued logic is kept: a comparison with NULL is "null", a policy lets a *)
(* row through only when its expression is "true", and PL/pgSQL's IF takes *)
(* its branch only when the condition is "true".                           *)
(***************************************************************************)
EXTENDS Integers, Sequences, FiniteSets, TLC

\* ------------------------------------------------------------------ bounds
MaxRequests == 1
MaxMemberships == 2
MaxReports == 2
MaxOffers == 2
MaxTime == 3
MaxStatuses == 2

\* ---------------------------------------------------------------- universe
NULL == "NULL"
NoTime == 0

\* ids in the order the store hands them out
ActorOrder == <<"u1", "u2">>
BarangayOrder == <<"b1", "b2">>

Actors == {ActorOrder[i] : i \in 1..Len(ActorOrder)}
Municipalities == {"m1", "m2"}
BarangayIds == {BarangayOrder[i] : i \in 1..Len(BarangayOrder)}
ReqIds == 1..MaxRequests

\* auth.uid() of a call: a signed-in actor, or NULL for an anonymous guest
Callers == Actors \cup {NULL}

\* client connections that can each have one RPC in flight
Sessions == {"s1", "s2"}

Codes == {"K1"}

Roles == {"resident", "lgu_responder", "admin", "super_admin",
          "municipal_responder", "barangay_responder"}

ZeroUuid == "00000000"

\* ------------------------------------------------- SQL three-valued logic
T3 == "true"
F3 == "false"
U3 == "null"

Bool3(b) == IF b THEN T3 ELSE F3

SqlEq(x, y) == IF x = NULL \/ y = NULL THEN U3 ELSE Bool3(x = y)

SqlNe(x, y) == IF x = NULL \/ y = NULL THEN U3 ELSE Bool3(x # y)

SqlIn(x, S) == IF x = NULL THEN U3 ELSE Bool3(x \in S)

SqlNot(p) == IF p = U3 THEN U3 ELSE IF p = T3 THEN F3 ELSE T3

SqlAnd(p, q) ==
  IF p = F3 \/ q = F3 THEN F3
  ELSE IF p = U3 \/ q = U3 THEN U3 ELSE T3

SqlOr(p, q) ==
  IF p = T3 \/ q = T3 THEN T3
  ELSE IF p = U3 \/ q = U3 THEN U3 ELSE F3

\* a WHERE clause, a policy and PL/pgSQL's IF all act on "true" only
IsTrue(p) == p = T3

\* ------------------------------------------------------------------- state
VARIABLES
  now,          \* the store's clock, now()
  profiles,     \* public.profiles, by id; role = NULL: no such row
  barangays,    \* public.barangays, by id; municipality_id = NULL: no such row
  requests,     \* public.barangay_boundary_requests, id = index
  memberships,  \* public.lgu_barangay_memberships, id = index
  invites,      \* public.admin_invites, by code; expires_at = NoTime: no such row
  reports,      \* public.reports, id = index
  offers,       \* public.barangay_assistance_offers, id = index
  statuses,     \* public.barangay_status_updates, id = index
  accounts,     \* auth.users joined with the proof column of profiles, by id
  sessions,     \* in-flight transactions of the row-locking RPCs
  last          \* the most recent call and what it returned

vars == <<now, profiles, barangays, requests, memberships, invites, reports,
          offers, statuses, accounts, sessions, last>>

NoProfile == [role |-> NULL, barangay_id |-> NULL, municipality_id |-> NULL]

NoBarangay == [municipality_id |-> NULL, boundary_geojson |-> NULL,
               boundary_approved_at |-> NoTime,
          description |-> NULL, name |-> NULL]

NoCall == [op |-> "none", actor |-> NULL, req |-> 0, brgy |-> NULL, ret |-> "none",
           rows |-> {}]

Idle == [pc |-> "idle", op |-> "none", actor |-> NULL, req |-> 0, code |-> NULL,
         brgy |-> NULL, ret |-> "none", valid_at_call |-> FALSE,
         role_at_call |-> NULL]

NoInvite == [expires_at |-> NoTime, used_at |-> NoTime, used_by |-> NULL,
             created_by |-> NULL]

\* email_confirmed stands for email_confirmed_at IS NOT NULL
NoAccount == [proof_of_employment_url |-> NULL, email_confirmed |-> FALSE]

\* the accounts of profiles that are in the store from the start: no proof
\* on file, e-mail confirmed
SeededAccounts ==
  [a \in Actors |-> IF profiles[a].role = NULL THEN NoAccount
                    ELSE [NoAccount EXCEPT !.email_confirmed = TRUE]]

\* op, caller, the request id it names (0: none) and the result
Call(op, a, r, ret) ==
  [op |-> op, actor |-> a, req |-> r, brgy |-> NULL, ret |-> ret, rows |-> {}]

\* the same for a call that names a barangay
CallB(op, a, b, ret) ==
  [op |-> op, actor |-> a, req |-> 0, brgy |-> b, ret |-> ret, rows |-> {}]

\* ------------------------------------------------------- session helpers
current_user_role(uid) == IF uid = NULL THEN NULL ELSE profiles[uid].role

current_user_barangay_id(uid) ==
  IF uid = NULL THEN NULL ELSE profiles[uid].barangay_id

current_user_municipality_id(uid) ==
  IF uid = NULL THEN NULL ELSE profiles[uid].municipality_id

LguRoles == {"lgu_responder", "municipal_responder", "barangay_responder"}

BarangayExists(b) == b \in BarangayIds /\ barangays[b].municipality_id # NULL

OpenMemberships(a) ==
  {i \in 1..Len(memberships) :
     memberships[i].profile_id = a /\ memberships[i].left_at = NoTime}

\* gen_random_uuid() for a new barangay row: an id no row has yet
FreshBarangayIds == {b \in BarangayIds : ~BarangayExists(b)}

Min(S) == CHOOSE x \in S : \A y \in S : x <= y

FreshBarangayId ==
  BarangayOrder[Min({i \in 1..Len(BarangayOrder) : BarangayOrder[i] \in FreshBarangayIds})]

\* the id of the next auth.users row
NextActor ==
  ActorOrder[Min({i \in 1..Len(ActorOrder) : profiles[ActorOrder[i]].role = NULL})]

\* --------------------------------------------------------------- signup
\* handle_new_user(): the AFTER INSERT trigger on auth.users.  A role that
\* does not cast to user_role falls back to 'resident'; the affiliation
\* metadata is read for the two new responder roles only.
SignupRole(meta_role) == IF meta_role \in Roles THEN meta_role ELSE "resident"

SignupProfile(meta_role, meta_municipality, meta_barangay) ==
  LET r == SignupRole(meta_role)
      scoped == r \in {"municipal_responder", "barangay_responder"}
  IN [role |-> r,
      barangay_id |-> IF scoped THEN meta_barangay ELSE NULL,
      municipality_id |-> IF scoped THEN meta_municipality ELSE NULL]

NewMembership(a, b, creator) ==
  [profile_id |-> a, barangay_id |-> b, is_creator |-> creator,
   left_at |-> NoTime]

handle_new_user(a, meta_role, meta_municipality, meta_barangay, meta_proof) ==
  LET p == SignupProfile(meta_role, meta_municipality, meta_barangay)
      member == p.role = "barangay_responder" /\ p.barangay_id # NULL
  IN /\ profiles[a].role = NULL
     /\ a = NextActor
     \* foreign keys of profiles: a barangay that is no row aborts the signup
     /\ p.barangay_id # NULL => BarangayExists(p.barangay_id)
     /\ member => Len(memberships) < MaxMemberships
     /\ profiles' = [profiles EXCEPT ![a] = p]
     /\ memberships' = IF member
                       THEN Append(memberships, NewMembership(a, p.barangay_id, FALSE))
                       ELSE memberships
     \* the proof column of the new profile, and the confirmation the
     \* trigger writes for the three responder roles
     /\ accounts' = [accounts EXCEPT ![a] =
                       [proof_of_employment_url |-> meta_proof,
                        email_confirmed |-> p.role \in LguRoles]]
     /\ last' = Call("signup", a, 0, T3)
     /\ UNCHANGED <<now, barangays, requests, invites, reports, offers, statuses,
                    sessions>>

\* ------------------------------------------------- boundary requests
\* TRIM() of a name or description held as one token: the blank one is all
\* spaces
Trim(s) == IF s = " " THEN "" ELSE s

\* trimming of a text held as a sequence of characters, the space being its
\* only blank: String.prototype.trim() and SQL TRIM() alike
RECURSIVE TrimStart(_)
TrimStart(d) == IF d # <<>> /\ Head(d) = " " THEN TrimStart(Tail(d)) ELSE d

RECURSIVE TrimEnd(_)
TrimEnd(d) ==
  IF d # <<>> /\ d[Len(d)] = " " THEN TrimEnd(SubSeq(d, 1, Len(d) - 1)) ELSE d

trim(d) == TrimEnd(TrimStart(d))

\* a contact e-mail and a contact phone the new-area form accepts
GoodEmail == <<"a", "@", "b", ".", "p", "h">>

GoodPhone == <<"0", "9", "1", "7", "1", "2", "3", "4", "5", "6", "7">>

\* submit_barangay_boundary_request(), the seven-argument overload the
\* service calls; returns the new id, or NULL
\* the checks without the one on the caller's role
SubmitAccepted_AnyRole(a, name, geojson, email, phone) ==
  /\ ~(name = NULL \/ Trim(name) = "")
  /\ geojson # NULL
  /\ ~(email = NULL \/ trim(email) = <<>>)
  /\ ~(phone = NULL \/ trim(phone) = <<>>)

SubmitAccepted(a, name, geojson, email, phone) ==
  /\ ~IsTrue(SqlNot(SqlIn(current_user_role(a), LguRoles)))
  /\ ~(name = NULL \/ Trim(name) = "")
  /\ geojson # NULL
  /\ ~(email = NULL \/ trim(email) = <<>>)
  /\ ~(phone = NULL \/ trim(phone) = <<>>)

NewRequest(a, m, b, name, geojson, email, phone) ==
  [requested_by |-> a, municipality_id |-> m,
   barangay_id |-> IF b = ZeroUuid THEN NULL ELSE b,
   barangay_name |-> Trim(name), boundary_geojson |-> geojson,
   contact_email |-> trim(email), contact_phone |-> trim(phone),
   status |-> "pending", reviewed_by |-> NULL, reviewed_at |-> NoTime,
   rejection_reason |-> NULL]

submit_barangay_boundary_request(a, m, b, name, geojson, email, phone) ==
  /\ IF SubmitAccepted(a, name, geojson, email, phone)
     THEN \* requested_by NOT NULL and the barangay foreign key abort the insert
          IF current_user_role(a) = NULL \/ (b # ZeroUuid /\ ~BarangayExists(b))
          THEN /\ requests' = requests
               /\ last' = Call("submit", a, 0, "error")
          ELSE /\ Len(requests) < MaxRequests
               /\ requests' = Append(requests, NewRequest(a, m, b, name, geojson, email, phone))
               /\ last' = Call("submit", a, Len(requests) + 1, "id")
     ELSE /\ requests' = requests
          /\ last' = Call("submit", a, 0, U3)
  /\ UNCHANGED <<now, profiles, barangays, memberships, invites, reports, offers,
                 statuses, accounts, sessions>>

\* the locked check without its status = 'pending' condition
PendingRequest_AnyStatus(r) == r \in 1..Len(requests)

\* WHERE id = p_request_id AND status = 'pending'
PendingRequest(r) == r \in 1..Len(requests) /\ requests[r].status = "pending"

\* lines 51-62: v_can_approve, a BOOLEAN that can be NULL
v_can_approve(a, r) ==
  IF IsTrue(SqlIn(current_user_role(a), {"admin", "super_admin"})) THEN T3
  ELSE IF IsTrue(SqlEq(current_user_role(a), "municipal_responder"))
       THEN IF PendingRequest(r)
            THEN SqlEq(requests[r].municipality_id, current_user_municipality_id(a))
            ELSE U3
       ELSE F3

\* lines 69-84: the writes of an approval of the locked row v_req
ApprovedBarangayId(v_req) ==
  IF v_req.barangay_id # NULL THEN v_req.barangay_id ELSE FreshBarangayId

ApprovedBarangays(v_req) ==
  IF v_req.barangay_id # NULL
  THEN IF BarangayExists(v_req.barangay_id)
       THEN [barangays EXCEPT ![v_req.barangay_id].boundary_geojson = v_req.boundary_geojson,
                              ![v_req.barangay_id].boundary_approved_at = now]
       ELSE barangays
  ELSE [barangays EXCEPT ![FreshBarangayId] =
          [municipality_id |-> v_req.municipality_id,
           boundary_geojson |-> v_req.boundary_geojson,
           boundary_approved_at |-> now,
          description |-> NULL, name |-> v_req.barangay_name]]

ApprovedProfiles(v_req) ==
  [profiles EXCEPT ![v_req.requested_by].barangay_id = ApprovedBarangayId(v_req),
                   ![v_req.requested_by].municipality_id = v_req.municipality_id]

\* the creator membership inserted with is_creator false
ApprovedMemberships_NotCreator(v_req) ==
  Append(memberships, NewMembership(v_req.requested_by, ApprovedBarangayId(v_req), FALSE))

ApprovedMemberships(v_req) ==
  Append(memberships, NewMembership(v_req.requested_by, ApprovedBarangayId(v_req), TRUE))

ApprovedRequests(a, r) ==
  [requests EXCEPT ![r].status = "approved", ![r].reviewed_by = a,
                   ![r].reviewed_at = now]

ApproveWrites(a, r, v_req) ==
  /\ v_req.barangay_id = NULL => FreshBarangayIds # {}
  /\ Len(memberships) < MaxMemberships
  /\ barangays' = ApprovedBarangays(v_req)
  /\ profiles' = ApprovedProfiles(v_req)
  /\ memberships' = ApprovedMemberships(v_req)
  /\ requests' = ApprovedRequests(a, r)

\* approve_barangay_boundary_request() run as one uncontended transaction
approve_barangay_boundary_request(a, r) ==
  /\ IF IsTrue(SqlNot(v_can_approve(a, r))) \/ ~PendingRequest(r)
     THEN /\ UNCHANGED <<barangays, profiles, memberships, requests>>
          /\ last' = Call("approve", a, r, F3)
     ELSE /\ ApproveWrites(a, r, requests[r])
          /\ last' = Call("approve", a, r, T3)
  /\ UNCHANGED <<now, invites, reports, offers, statuses, accounts, sessions>>

\* part_005 lines 65-75: v_can_reject
v_can_reject(a, r) ==
  IF IsTrue(SqlIn(current_user_role(a), {"admin", "super_admin"})) THEN T3
  ELSE IF IsTrue(SqlEq(current_user_role(a), "municipal_responder"))
       THEN IF PendingRequest(r)
            THEN SqlEq(requests[r].municipality_id, current_user_municipality_id(a))
            ELSE U3
       ELSE F3

\* the reason stored as it was passed
RejectionReason_Untrimmed(reason) ==
  IF reason = NULL THEN NULL ELSE IF reason = <<>> THEN NULL ELSE reason

\* NULLIF(TRIM(COALESCE(p_rejection_reason, '')), ''), the reason a sequence
\* of characters
RejectionReason(reason) ==
  IF reason = NULL THEN NULL ELSE IF trim(reason) = <<>> THEN NULL ELSE trim(reason)

\* the reasons a reviewer passes: none, a blank one, a padded one
Reasons == {NULL, <<" ">>, <<" ", "o", "k", " ">>}

RejectedRequests(a, r, reason) ==
  [requests EXCEPT ![r].status = "rejected", ![r].reviewed_by = a,
                   ![r].reviewed_at = now,
                   ![r].rejection_reason = RejectionReason(reason)]

\* the rejection without the status = 'pending' condition of its locked read
reject_barangay_boundary_request_AnyStatus(a, r, reason) ==
  /\ IF IsTrue(SqlNot(v_can_reject(a, r))) \/ r \notin 1..Len(requests)
     THEN /\ requests' = requests
          /\ last' = Call("reject", a, r, F3)
     ELSE /\ requests' = RejectedRequests(a, r, reason)
          /\ last' = Call("reject", a, r, T3)
  /\ UNCHANGED <<now, profiles, barangays, memberships, invites, reports, offers,
                 statuses, accounts, sessions>>

\* reject_barangay_boundary_request() run as one uncontended transaction
reject_barangay_boundary_request(a, r, reason) ==
  /\ IF IsTrue(SqlNot(v_can_reject(a, r))) \/ ~PendingRequest(r)
     THEN /\ requests' = requests
          /\ last' = Call("reject", a, r, F3)
     ELSE /\ requests' = RejectedRequests(a, r, reason)
          /\ last' = Call("reject", a, r, T3)
  /\ UNCHANGED <<now, profiles, barangays, memberships, invites, reports, offers,
                 statuses, accounts, sessions>>

\* ------------------------------------------------------- join and leave
\* the checks without the EXISTS test for an open membership
JoinAllowed_IgnoresMembership(a, b) ==
  /\ ~IsTrue(SqlNot(SqlIn(current_user_role(a), LguRoles)))
  /\ BarangayExists(b)
  /\ barangays[b].boundary_approved_at # NoTime
  /\ barangays[b].boundary_geojson # NULL

\* join_barangay() lines 1135-1139: the three checks before the writes
JoinAllowed(a, b) ==
  /\ ~IsTrue(SqlNot(SqlIn(current_user_role(a), LguRoles)))
  /\ OpenMemberships(a) = {}
  /\ BarangayExists(b)
  /\ barangays[b].boundary_approved_at # NoTime
  /\ barangays[b].boundary_geojson # NULL

JoinedProfiles(a, b) ==
  [profiles EXCEPT ![a].barangay_id = b,
                   ![a].municipality_id = barangays[b].municipality_id]

\* join_barangay() run as one uncontended transaction
join_barangay(a, b) ==
  /\ IF JoinAllowed(a, b)
     THEN IF current_user_role(a) = NULL
          THEN \* profile_id NOT NULL aborts the insert of an anonymous caller
               /\ UNCHANGED <<profiles, memberships>>
               /\ last' = Call("join", a, 0, "error")
          ELSE /\ Len(memberships) < MaxMemberships
               /\ profiles' = JoinedProfiles(a, b)
               /\ memberships' = Append(memberships, NewMembership(a, b, FALSE))
               /\ last' = Call("join", a, 0, T3)
     ELSE /\ UNCHANGED <<profiles, memberships>>
          /\ last' = Call("join", a, 0, F3)
  /\ UNCHANGED <<now, barangays, requests, invites, reports, offers, statuses,
                 accounts, sessions>>

\* leave_barangay(): SELECT ... INTO takes one open row, in no stated order
leave_barangay(a) ==
  /\ IF IsTrue(SqlNot(SqlIn(current_user_role(a), LguRoles))) \/ OpenMemberships(a) = {}
     THEN /\ UNCHANGED <<profiles, memberships>>
          /\ last' = Call("leave", a, 0, F3)
     ELSE /\ \E i \in OpenMemberships(a) :
               memberships' = [memberships EXCEPT ![i].left_at = now]
          /\ profiles' = [profiles EXCEPT ![a].barangay_id = NULL,
                                          ![a].municipality_id = NULL]
          /\ last' = Call("leave", a, 0, T3)
  /\ UNCHANGED <<now, barangays, requests, invites, reports, offers, statuses,
                 accounts, sessions>>

\* ------------------------------------------------------------- the clock
Tick ==
  /\ now < MaxTime
  /\ now' = now + 1
  /\ UNCHANGED <<profiles, barangays, requests, memberships, invites, reports,
                 offers, statuses, accounts, sessions, last>>

\* ------------------------------------------------------------ initial state
\* the seeded store: both municipalities, one barangay row an admin entered
\* without a boundary, and no account yet
Init ==
  /\ now = 1
  /\ profiles = [a \in Actors |-> NoProfile]
  /\ barangays = [b \in BarangayIds |->
                    IF b = "b1"
                    THEN [municipality_id |-> "m1", boundary_geojson |-> NULL,
                          boundary_approved_at |-> NoTime,
          description |-> NULL, name |-> "Centro"]
                    ELSE NoBarangay]
  /\ requests = <<>>
  /\ memberships = <<>>
  /\ invites = [c \in Codes |-> NoInvite]
  /\ reports = <<>>
  /\ offers = <<>>
  /\ statuses = <<>>
  /\ accounts = SeededAccounts
  /\ sessions = [s \in Sessions |-> Idle]
  /\ last = NoCall

\* whoever can hold a session: an account, or an anonymous guest
SignedIn == {a \in Actors : profiles[a].role # NULL} \cup {NULL}

Signup ==
  \E a \in Actors, r \in Roles \cup {"hacker"}, m \in Municipalities \cup {NULL},
     b \in BarangayIds \cup {NULL} :
    handle_new_user(a, r, m, b, NULL)

SubmitBoundaryRequest ==
  \E a \in SignedIn, m \in Municipalities, b \in BarangayIds \cup {ZeroUuid},
     g \in {"g1", NULL} :
    submit_barangay_boundary_request(a, m, b, "Tulay", g, GoodEmail, GoodPhone)

ApproveBoundaryRequest ==
  \E a \in SignedIn, r \in ReqIds : approve_barangay_boundary_request(a, r)

RejectBoundaryRequest ==
  \E a \in SignedIn, r \in ReqIds, reason \in Reasons :
    reject_barangay_boundary_request(a, r, reason)

JoinBarangay ==
  \E a \in SignedIn, b \in BarangayIds : join_barangay(a, b)

LeaveBarangay ==
  \E a \in SignedIn : leave_barangay(a)

Next ==
  \/ Signup
  \/ SubmitBoundaryRequest
  \/ ApproveBoundaryRequest
  \/ RejectBoundaryRequest
  \/ JoinBarangay
  \/ LeaveBarangay

Spec == Init /\ [][Next]_vars

\* who may review request r: admin or super_admin, or a municipal responder
\* whose municipality is the request's
AuthorizedReviewer(a, r) ==
  /\ a # NULL
  /\ r \in 1..Len(requests)
  /\ \/ profiles[a].role \in {"admin", "super_admin"}
     \/ /\ profiles[a].role = "municipal_responder"
        /\ profiles[a].municipality_id # NULL
        /\ profiles[a].municipality_id = requests[r].municipality_id

\* ============================== the row-locking RPCs, statement by statement
\* Each call is a READ COMMITTED transaction: a statement sees what is
\* committed when it runs, SELECT ... FOR UPDATE waits while another
\* transaction holds the row and then tests its WHERE clause against the
\* committed row, and the writes become visible together at commit.

\* no lock at all: what FOR UPDATE would be without its row lock
RowLockedByOther_NoLock(s, op_set, r) == FALSE

\* another transaction has row r of barangay_boundary_requests locked
RowLockedByOther(s, op_set, r) ==
  \E o \in Sessions \ {s} :
    /\ sessions[o].pc = "locked"
    /\ sessions[o].op \in op_set
    /\ sessions[o].req = r

ReviewOps == {"approve", "reject"}

\* lines 51-64: the call arrives and reads its permission
ApproveBegin(s, a, r) ==
  /\ sessions[s].pc = "idle"
  /\ sessions' = [sessions EXCEPT ![s] =
       [Idle EXCEPT !.op = "approve", !.actor = a, !.req = r,
                    !.valid_at_call = PendingRequest(r) /\ AuthorizedReviewer(a, r),
                    !.pc = IF IsTrue(SqlNot(v_can_approve(a, r))) THEN "done" ELSE "checked",
                    !.ret = IF IsTrue(SqlNot(v_can_approve(a, r))) THEN F3 ELSE "none"]]
  /\ UNCHANGED <<now, profiles, barangays, requests, memberships, invites, reports,
                 offers, statuses, accounts, last>>

\* lines 66-67: SELECT ... WHERE status = 'pending' FOR UPDATE
ApproveLock(s) ==
  /\ sessions[s].pc = "checked"
  /\ sessions[s].op = "approve"
  /\ IF PendingRequest(sessions[s].req)
     THEN /\ ~RowLockedByOther(s, ReviewOps, sessions[s].req)
          /\ sessions' = [sessions EXCEPT ![s].pc = "locked"]
     ELSE sessions' = [sessions EXCEPT ![s].pc = "done", ![s].ret = F3]
  /\ UNCHANGED <<now, profiles, barangays, requests, memberships, invites, reports,
                 offers, statuses, accounts, last>>

\* lines 69-85: the writes, and the commit that releases the row
ApproveCommit(s) ==
  /\ sessions[s].pc = "locked"
  /\ sessions[s].op = "approve"
  /\ ApproveWrites(sessions[s].actor, sessions[s].req, requests[sessions[s].req])
  /\ sessions' = [sessions EXCEPT ![s].pc = "done", ![s].ret = T3]
  /\ UNCHANGED <<now, invites, reports, offers, statuses, accounts, last>>

\* part_005 lines 65-77
RejectBegin(s, a, r, reason) ==
  /\ sessions[s].pc = "idle"
  /\ sessions' = [sessions EXCEPT ![s] =
       [Idle EXCEPT !.op = "reject", !.actor = a, !.req = r, !.code = reason,
                    !.valid_at_call = PendingRequest(r) /\ AuthorizedReviewer(a, r),
                    !.pc = IF IsTrue(SqlNot(v_can_reject(a, r))) THEN "done" ELSE "checked",
                    !.ret = IF IsTrue(SqlNot(v_can_reject(a, r))) THEN F3 ELSE "none"]]
  /\ UNCHANGED <<now, profiles, barangays, requests, memberships, invites, reports,
                 offers, statuses, accounts, last>>

\* part_005 lines 79-80
RejectLock(s) ==
  /\ sessions[s].pc = "checked"
  /\ sessions[s].op = "reject"
  /\ IF PendingRequest(sessions[s].req)
     THEN /\ ~RowLockedByOther(s, ReviewOps, sessions[s].req)
          /\ sessions' = [sessions EXCEPT ![s].pc = "locked"]
     ELSE sessions' = [sessions EXCEPT ![s].pc = "done", ![s].ret = F3]
  /\ UNCHANGED <<now, profiles, barangays, requests, memberships, invites, reports,
                 offers, statuses, accounts, last>>

\* part_005 lines 82-86
RejectCommit(s) ==
  /\ sessions[s].pc = "locked"
  /\ sessions[s].op = "reject"
  /\ requests' = RejectedRequests(sessions[s].actor, sessions[s].req, sessions[s].code)
  /\ sessions' = [sessions EXCEPT ![s].pc = "done", ![s].ret = T3]
  /\ UNCHANGED <<now, profiles, barangays, memberships, invites, reports, offers,
                 statuses, accounts, last>>

\* the client takes the result; the connection is free again
SessionReturn(s) ==
  /\ sessions[s].pc = "done"
  /\ sessions' = [sessions EXCEPT ![s] = Idle]
  /\ UNCHANGED <<now, profiles, barangays, requests, memberships, invites, reports,
                 offers, statuses, accounts, last>>

\* a store with reviewers and one pending request: u1, a municipal responder
\* of m1, has asked for a boundary in m1; u2 is an admin, or a municipal
\* responder of m1 or of m2
InitReview ==
  /\ now = 1
  /\ \E r2 \in {"admin", "super_admin", "municipal_responder"}, m2 \in Municipalities,
        b \in {NULL, "b1"} :
       /\ profiles = [a \in Actors |->
            IF a = "u1"
            THEN [role |-> "municipal_responder", barangay_id |-> NULL,
                  municipality_id |-> "m1"]
            ELSE [role |-> r2, barangay_id |-> NULL,
                  municipality_id |-> IF r2 = "municipal_responder" THEN m2 ELSE NULL]]
       /\ requests = << [NewRequest("u1", "m1", ZeroUuid, "Tulay", "g1", GoodEmail,
                                    GoodPhone) EXCEPT !.barangay_id = b] >>
  /\ barangays = [b \in BarangayIds |->
                    IF b = "b1"
                    THEN [municipality_id |-> "m1", boundary_geojson |-> NULL,
                          boundary_approved_at |-> NoTime,
          description |-> NULL, name |-> "Centro"]
                    ELSE NoBarangay]
  /\ memberships = <<>>
  /\ invites = [c \in Codes |-> NoInvite]
  /\ reports = <<>>
  /\ offers = <<>>
  /\ statuses = <<>>
  /\ accounts = SeededAccounts
  /\ sessions = [s \in Sessions |-> Idle]
  /\ last = NoCall

ApproveCall == \E s \in Sessions, a \in SignedIn, r \in ReqIds : ApproveBegin(s, a, r)

ApproveSelectForUpdate == \E s \in Sessions : ApproveLock(s)

ApproveWriteCommit == \E s \in Sessions : ApproveCommit(s)

RejectCall ==
  \E s \in Sessions, a \in SignedIn, r \in ReqIds, reason \in {NULL, <<"o", "k">>} :
    RejectBegin(s, a, r, reason)

RejectSelectForUpdate == \E s \in Sessions : RejectLock(s)

RejectWriteCommit == \E s \in Sessions : RejectCommit(s)

Return == \E s \in Sessions : SessionReturn(s)

NextReview ==
  \/ ApproveCall
  \/ ApproveSelectForUpdate
  \/ ApproveWriteCommit
  \/ RejectCall
  \/ RejectSelectForUpdate
  \/ RejectWriteCommit
  \/ Return

SpecReview == InitReview /\ [][NextReview]_vars

\* ===================== join_barangay(), statement by statement
\* The function takes no lock before its checks.  Its UPDATE of the caller's
\* profiles row waits while another transaction has that row updated and not
\* yet committed; the INSERT waits for nothing, since no constraint of
\* lgu_barangay_memberships spans two rows.

\* another transaction has updated the profiles row of a and not committed
ProfileLockedByOther(s, a) ==
  \E o \in Sessions \ {s} :
    /\ sessions[o].pc = "locked"
    /\ sessions[o].op = "join"
    /\ sessions[o].actor = a

\* lines 1135-1139: the role, the open membership and the barangay, each read
\* from what is committed
JoinBegin(s, a, b) ==
  /\ sessions[s].pc = "idle"
  /\ sessions' = [sessions EXCEPT ![s] =
       [Idle EXCEPT !.op = "join", !.actor = a, !.brgy = b,
                    !.pc = IF JoinAllowed(a, b) THEN "checked" ELSE "done",
                    !.ret = IF JoinAllowed(a, b) THEN "none" ELSE F3]]
  /\ UNCHANGED <<now, profiles, barangays, requests, memberships, invites, reports,
                 offers, statuses, accounts, last>>

\* line 1140: UPDATE profiles ... WHERE id = auth.uid()
JoinUpdateProfile(s) ==
  /\ sessions[s].pc = "checked"
  /\ sessions[s].op = "join"
  /\ ~ProfileLockedByOther(s, sessions[s].actor)
  /\ sessions' = [sessions EXCEPT ![s].pc = "locked"]
  /\ UNCHANGED <<now, profiles, barangays, requests, memberships, invites, reports,
                 offers, statuses, accounts, last>>

\* lines 1141-1142: the INSERT, RETURN TRUE, and the commit that publishes
\* both writes; an anonymous caller's INSERT aborts on profile_id NOT NULL
JoinCommit(s) ==
  /\ sessions[s].pc = "locked"
  /\ sessions[s].op = "join"
  /\ IF sessions[s].actor = NULL
     THEN /\ UNCHANGED <<profiles, memberships>>
          /\ sessions' = [sessions EXCEPT ![s].pc = "done", ![s].ret = "error"]
     ELSE /\ Len(memberships) < MaxMemberships
          /\ profiles' = JoinedProfiles(sessions[s].actor, sessions[s].brgy)
          /\ memberships' = Append(memberships,
                 NewMembership(sessions[s].actor, sessions[s].brgy, FALSE))
          /\ sessions' = [sessions EXCEPT ![s].pc = "done", ![s].ret = T3]
  /\ UNCHANGED <<now, barangays, requests, invites, reports, offers, statuses,
                 accounts, last>>

\* a store with two approved barangays of m1 and two accounts without a
\* barangay: u1 holds one of the three responder roles, u2 any role
InitJoin ==
  /\ now = 1
  /\ \E r1 \in LguRoles, r2 \in {"resident", "lgu_responder", "admin"} :
       profiles = [a \in Actors |->
            [role |-> IF a = "u1" THEN r1 ELSE r2, barangay_id |-> NULL,
             municipality_id |-> NULL]]
  /\ barangays = [b \in BarangayIds |->
                    [municipality_id |-> "m1", boundary_geojson |-> "g1",
                     boundary_approved_at |-> 1, description |-> NULL, name |-> "Centro"]]
  /\ requests = <<>>
  /\ memberships = <<>>
  /\ invites = [c \in Codes |-> NoInvite]
  /\ reports = <<>>
  /\ offers = <<>>
  /\ statuses = <<>>
  /\ accounts = SeededAccounts
  /\ sessions = [s \in Sessions |-> Idle]
  /\ last = NoCall

JoinCall == \E s \in Sessions, a \in SignedIn, b \in BarangayIds : JoinBegin(s, a, b)

JoinProfileUpdate == \E s \in Sessions : JoinUpdateProfile(s)

JoinInsertCommit == \E s \in Sessions : JoinCommit(s)

NextJoin ==
  \/ JoinCall
  \/ JoinProfileUpdate
  \/ JoinInsertCommit
  \/ Return

SpecJoin == InitJoin /\ [][NextJoin]_vars

\* ------------------------------------------------------- admin invites
\* admin_invites_insert_super: WITH CHECK of an INSERT by uid a
admin_invites_insert_super(a, row) ==
  SqlAnd(SqlEq(current_user_role(a), "super_admin"), SqlEq(row.created_by, a))

\* a super_admin's client inserts an invite; code is UNIQUE
InsertInvite(a, code, expires) ==
  LET row == [NoInvite EXCEPT !.expires_at = expires, !.created_by = a] IN
  /\ IF IsTrue(admin_invites_insert_super(a, row)) /\ invites[code] = NoInvite
     THEN /\ invites' = [invites EXCEPT ![code] = row]
          /\ last' = Call("invite", a, 0, T3)
     ELSE /\ invites' = invites
          /\ last' = Call("invite", a, 0, "error")
  /\ UNCHANGED <<now, profiles, barangays, requests, memberships, reports, offers,
                 statuses, accounts,
                 sessions>>

\* the WHERE clause with >= for >: an invite is still good at its expiry instant
ValidInvite_AtExpiry(code) ==
  /\ code \in Codes
  /\ invites[code].expires_at # NoTime
  /\ invites[code].used_at = NoTime
  /\ invites[code].expires_at >= now

\* line 709: WHERE code = invite_code AND used_at IS NULL AND expires_at > now()
ValidInvite(code) ==
  /\ code \in Codes
  /\ invites[code].expires_at # NoTime
  /\ invites[code].used_at = NoTime
  /\ invites[code].expires_at > now

\* the SELECT of claim_admin_invite without FOR UPDATE
InviteLockedByOther_NoLock(s, code) == FALSE

\* another transaction has the invite row of this code locked
InviteLockedByOther(s, code) ==
  \E o \in Sessions \ {s} :
    /\ sessions[o].pc = "locked"
    /\ sessions[o].op = "claim"
    /\ sessions[o].code = code

\* the call arrives
ClaimBegin(s, a, code) ==
  /\ sessions[s].pc = "idle"
  /\ sessions' = [sessions EXCEPT ![s] =
       [Idle EXCEPT !.op = "claim", !.actor = a, !.code = code, !.pc = "called",
                    !.valid_at_call = (code \in Codes /\ invites[code].expires_at # NoTime
                                       /\ invites[code].used_at = NoTime),
                    !.role_at_call = current_user_role(a)]]
  /\ UNCHANGED <<now, profiles, barangays, requests, memberships, invites, reports,
                 offers, statuses, accounts, last>>

\* lines 707-713: SELECT ... FOR UPDATE; IF NOT FOUND THEN RETURN FALSE
ClaimSelect(s) ==
  /\ sessions[s].pc = "called"
  /\ sessions[s].op = "claim"
  /\ IF ValidInvite(sessions[s].code)
     THEN /\ ~InviteLockedByOther(s, sessions[s].code)
          /\ sessions' = [sessions EXCEPT ![s].pc = "locked"]
     ELSE sessions' = [sessions EXCEPT ![s].pc = "done", ![s].ret = F3]
  /\ UNCHANGED <<now, profiles, barangays, requests, memberships, invites, reports,
                 offers, statuses, accounts, last>>

\* lines 714-716: both UPDATEs and the commit; an anonymous caller has no
\* profile row to update
ClaimCommit(s) ==
  LET a == sessions[s].actor
      code == sessions[s].code
  IN /\ sessions[s].pc = "locked"
     /\ sessions[s].op = "claim"
     /\ invites' = [invites EXCEPT ![code].used_at = now, ![code].used_by = a]
     /\ profiles' = IF a = NULL THEN profiles
                    ELSE [profiles EXCEPT ![a].role = "admin"]
     /\ sessions' = [sessions EXCEPT ![s].pc = "done", ![s].ret = T3]
     /\ UNCHANGED <<now, barangays, requests, memberships, reports, offers, statuses,
                    accounts, last>>

\* a store with a super_admin, u1, and a second account, a resident or a
\* municipal responder
InitInvite ==
  /\ now = 1
  /\ \E r2 \in {"resident", "municipal_responder"} :
       profiles = [a \in Actors |->
          IF a = "u1"
          THEN [role |-> "super_admin", barangay_id |-> NULL, municipality_id |-> NULL]
          ELSE [role |-> r2, barangay_id |-> NULL,
                municipality_id |-> IF r2 = "municipal_responder" THEN "m1" ELSE NULL]]
  /\ barangays = [b \in BarangayIds |->
                    IF b = "b1"
                    THEN [municipality_id |-> "m1", boundary_geojson |-> NULL,
                          boundary_approved_at |-> NoTime,
          description |-> NULL, name |-> "Centro"]
                    ELSE NoBarangay]
  /\ requests = <<>>
  /\ memberships = <<>>
  /\ invites = [c \in Codes |-> NoInvite]
  /\ reports = <<>>
  /\ offers = <<>>
  /\ statuses = <<>>
  /\ accounts = SeededAccounts
  /\ sessions = [s \in Sessions |-> Idle]
  /\ last = NoCall

CreateInvite ==
  \E a \in SignedIn, code \in Codes, expires \in 1..MaxTime : InsertInvite(a, code, expires)

ClaimCall ==
  \E s \in Sessions, a \in SignedIn, code \in Codes \cup {"nope"} : ClaimBegin(s, a, code)

ClaimSelectForUpdate == \E s \in Sessions : ClaimSelect(s)

ClaimWriteCommit == \E s \in Sessions : ClaimCommit(s)

NextInvite ==
  \/ CreateInvite
  \/ ClaimCall
  \/ ClaimSelectForUpdate
  \/ ClaimWriteCommit
  \/ Return
  \/ Tick

SpecInvite == InitInvite /\ [][NextInvite]_vars

\* ------------------------------------------------------ hazard reports
\* current_user_is_lgu_type(), as redefined with COALESCE(..., false)
current_user_is_lgu_type(a) ==
  IF current_user_role(a) = NULL THEN F3 ELSE SqlIn(current_user_role(a), LguRoles)

\* the helper with the municipal branch answering for every barangay
current_user_can_access_barangay_AnyMunicipality(a, b) ==
  IF current_user_role(a) = NULL THEN F3
  ELSE IF b = NULL THEN F3
  ELSE IF current_user_role(a) \in {"admin", "super_admin"} THEN T3
  ELSE IF current_user_role(a) \in {"lgu_responder", "barangay_responder"}
       THEN SqlEq(current_user_barangay_id(a), b)
  ELSE IF current_user_role(a) = "municipal_responder"
       THEN T3
  ELSE F3

\* current_user_can_access_barangay(p_barangay_id)
current_user_can_access_barangay(a, b) ==
  IF current_user_role(a) = NULL THEN F3
  ELSE IF b = NULL THEN F3
  ELSE IF current_user_role(a) \in {"admin", "super_admin"} THEN T3
  ELSE IF current_user_role(a) \in {"lgu_responder", "barangay_responder"}
       THEN SqlEq(current_user_barangay_id(a), b)
  ELSE IF current_user_role(a) = "municipal_responder"
       THEN Bool3(BarangayExists(b)
                  /\ IsTrue(SqlEq(barangays[b].municipality_id,
                                  current_user_municipality_id(a))))
  ELSE F3

reports_select_own(a, row) == SqlEq(row.reporter_id, a)

reports_select_barangay_lgu(a, row) ==
  SqlAnd(current_user_is_lgu_type(a), current_user_can_access_barangay(a, row.barangay_id))

reports_select_admin(a, row) == SqlIn(current_user_role(a), {"admin", "super_admin"})

reports_select_verified_any(a, row) == SqlIn(row.status, {"acknowledged", "resolved"})

\* the table without the policy of the public-map migration
reports_select_public_Absent(a, row) == F3

\* reports_select_public: USING (true)
reports_select_public(a, row) == T3

\* the four policies of the base schema, OR-ed as permissive policies are
reports_select_scoped(a, row) ==
  SqlOr(reports_select_own(a, row),
  SqlOr(reports_select_barangay_lgu(a, row),
  SqlOr(reports_select_admin(a, row), reports_select_verified_any(a, row))))

\* every SELECT policy on reports
reports_select(a, row) ==
  SqlOr(reports_select_scoped(a, row), reports_select_public(a, row))

reports_insert_resident(a, row) ==
  SqlAnd(SqlEq(current_user_role(a), "resident"), SqlEq(row.reporter_id, a))

\* the policy without its last conjunct, barangay_id = current_user_barangay_id()
reports_insert_lgu_AnyBarangay(a, row) ==
  SqlAnd(SqlIn(current_user_role(a), {"lgu_responder", "barangay_responder"}),
  SqlAnd(Bool3(current_user_barangay_id(a) # NULL),
         SqlEq(row.reporter_id, a)))

reports_insert_lgu(a, row) ==
  SqlAnd(SqlIn(current_user_role(a), {"lgu_responder", "barangay_responder"}),
  SqlAnd(Bool3(current_user_barangay_id(a) # NULL),
  SqlAnd(SqlEq(row.reporter_id, a),
         SqlEq(row.barangay_id, current_user_barangay_id(a)))))

reports_insert(a, row) ==
  SqlOr(reports_insert_resident(a, row), reports_insert_lgu(a, row))

reports_update_lgu_barangay(a, row) ==
  SqlAnd(current_user_is_lgu_type(a), current_user_can_access_barangay(a, row.barangay_id))

reports_update_admin(a, row) == SqlIn(current_user_role(a), {"admin", "super_admin"})

reports_update(a, row) ==
  SqlOr(reports_update_lgu_barangay(a, row), reports_update_admin(a, row))

\* createHazardReport(): an INSERT ... RETURNING id through the insert and
\* select policies and the foreign keys; status takes its column default.  ever_acknowledged is history, not a column: whether
\* status has been 'acknowledged' at some time.
createHazardReport(a, reporterId, barangayId) ==
  LET row == [reporter_id |-> reporterId, barangay_id |-> barangayId,
              status |-> "pending", ever_acknowledged |-> FALSE]
  IN /\ IF /\ IsTrue(reports_insert(a, row))
           /\ IsTrue(reports_select(a, row))
           /\ reporterId # NULL /\ profiles[reporterId].role # NULL
           /\ BarangayExists(barangayId)
        THEN /\ Len(reports) < MaxReports
             /\ reports' = Append(reports, row)
             /\ last' = CallB("report", a, barangayId, "id")
        ELSE /\ reports' = reports
             /\ last' = CallB("report", a, barangayId, "error")
     /\ UNCHANGED <<now, profiles, barangays, requests, memberships, invites, offers,
                    statuses, accounts,
                    sessions>>

\* an UPDATE of reports.status by a client: the row must be selectable, pass
\* the USING clause, and pass it again as changed (no WITH CHECK is given);
\* a row that does not is simply not updated
UpdateReportStatus(a, i, status) ==
  LET new == [reports[i] EXCEPT !.status = status,
                !.ever_acknowledged = @ \/ status = "acknowledged"]
  IN /\ i \in 1..Len(reports)
     /\ IF /\ IsTrue(reports_select(a, reports[i]))
           /\ IsTrue(reports_update(a, reports[i]))
           /\ IsTrue(reports_update(a, new))
        THEN /\ reports' = [reports EXCEPT ![i] = new]
             /\ last' = Call("update_report", a, 0, T3)
        ELSE /\ reports' = reports
             /\ last' = Call("update_report", a, 0, F3)
     /\ UNCHANGED <<now, profiles, barangays, requests, memberships, invites, offers,
                    statuses, accounts,
                    sessions>>

\* fetchAllHazardReports(): the rows the SELECT policies let the caller see
fetchAllHazardReports(a) ==
  /\ last' = [Call("fetch", a, 0, T3) EXCEPT
                !.rows = {i \in 1..Len(reports) : IsTrue(reports_select(a, reports[i]))}]
  /\ UNCHANGED <<now, profiles, barangays, requests, memberships, invites, reports,
                 offers, statuses, accounts, sessions>>

\* the profiles a reporter or reader can have: resident, barangay-level
\* responder with or without a barangay, municipal responder, admin
ReportCast ==
  {[role |-> "resident", barangay_id |-> NULL, municipality_id |-> NULL],
   [role |-> "barangay_responder", barangay_id |-> "b1", municipality_id |-> "m1"],
   [role |-> "barangay_responder", barangay_id |-> NULL, municipality_id |-> NULL],
   [role |-> "lgu_responder", barangay_id |-> "b2", municipality_id |-> "m2"],
   [role |-> "municipal_responder", barangay_id |-> NULL, municipality_id |-> "m1"],
   [role |-> "admin", barangay_id |-> NULL, municipality_id |-> NULL]}

\* both barangays exist with approved boundaries, b1 in m1 and b2 in m2
BoundedBarangays ==
  [b \in BarangayIds |->
     [municipality_id |-> IF b = "b1" THEN "m1" ELSE "m2",
      boundary_geojson |-> "g1", boundary_approved_at |-> 1,
          description |-> NULL, name |-> "Centro"]]

InitReports ==
  /\ now = 1
  /\ profiles \in [Actors -> ReportCast]
  /\ barangays = BoundedBarangays
  /\ requests = <<>>
  /\ memberships = <<>>
  /\ invites = [c \in Codes |-> NoInvite]
  /\ reports = <<>>
  /\ offers = <<>>
  /\ statuses = <<>>
  /\ accounts = SeededAccounts
  /\ sessions = [s \in Sessions |-> Idle]
  /\ last = NoCall

CreateHazardReport ==
  \E a \in Callers, reporterId \in Callers, b \in BarangayIds :
    createHazardReport(a, reporterId, b)

UpdateReport ==
  \E a \in Callers, i \in 1..MaxReports,
     status \in {"pending", "acknowledged", "resolved"} :
    UpdateReportStatus(a, i, status)

FetchReports == \E a \in Callers : fetchAllHazardReports(a)

NextReports ==
  \/ CreateHazardReport
  \/ UpdateReport
  \/ FetchReports

SpecReports == InitReports /\ [][NextReports]_vars

\* -------------------------------------------------- assistance offers
\* SELECT policies on profiles: own row, same barangay or municipality for
\* responders, every row for admins
profiles_select_own(a, u) == SqlEq(a, u)

profiles_select_same_barangay_lgu(a, u) ==
  SqlOr(SqlAnd(SqlIn(current_user_role(a), {"lgu_responder", "barangay_responder"}),
               SqlOr(SqlEq(profiles[u].barangay_id, current_user_barangay_id(a)),
                     SqlAnd(Bool3(profiles[u].barangay_id = NULL),
                            SqlEq(profiles[u].municipality_id,
                                  current_user_municipality_id(a))))),
        SqlAnd(SqlEq(current_user_role(a), "municipal_responder"),
               SqlEq(profiles[u].municipality_id, current_user_municipality_id(a))))

profiles_select_admin(a, u) == SqlIn(current_user_role(a), {"admin", "super_admin"})

\* the profile row a client signed in as a reads for user u, NoProfile when
\* no row comes back
ReadProfile(a, u) ==
  IF /\ u # NULL
     /\ profiles[u].role # NULL
     /\ IsTrue(SqlOr(profiles_select_own(a, u),
               SqlOr(profiles_select_same_barangay_lgu(a, u), profiles_select_admin(a, u))))
  THEN profiles[u]
  ELSE NoProfile

\* the CHECK without its first conjunct
no_self_assistance_MunicipalOnly(row) ==
  SqlOr(Bool3(row.helping_barangay_id # NULL), Bool3(row.helping_municipality_id # NULL))

\* CONSTRAINT no_self_assistance
no_self_assistance(row) ==
  SqlAnd(SqlOr(Bool3(row.helping_barangay_id = NULL),
               SqlNe(row.helping_barangay_id, row.recipient_barangay_id)),
         SqlOr(Bool3(row.helping_barangay_id # NULL),
               Bool3(row.helping_municipality_id # NULL)))

assistance_insert_lgu(a, row) ==
  SqlAnd(SqlEq(row.created_by, a),
    SqlOr(SqlAnd(SqlIn(current_user_role(a), {"lgu_responder", "barangay_responder"}),
          SqlAnd(SqlEq(row.helping_barangay_id, current_user_barangay_id(a)),
                 SqlNe(row.helping_barangay_id, row.recipient_barangay_id))),
          SqlAnd(SqlEq(current_user_role(a), "municipal_responder"),
          SqlAnd(SqlEq(row.helping_municipality_id, current_user_municipality_id(a)),
                 Bool3(row.helping_barangay_id = NULL)))))

assistance_insert_admin(a, row) ==
  SqlAnd(SqlIn(current_user_role(a), {"admin", "super_admin"}), SqlEq(row.created_by, a))

assistance_update_own(a, row) ==
  SqlOr(SqlAnd(SqlIn(current_user_role(a), {"lgu_responder", "barangay_responder"}),
               SqlEq(row.helping_barangay_id, current_user_barangay_id(a))),
        SqlAnd(SqlEq(current_user_role(a), "municipal_responder"),
               SqlEq(row.helping_municipality_id, current_user_municipality_id(a))))

\* whether INSERT INTO barangay_assistance_offers of row by a goes through:
\* an insert policy passes, the CHECK is not false, the NOT NULL columns are
\* given and the foreign keys resolve
OfferInsertAccepted(a, row) ==
  /\ IsTrue(SqlOr(assistance_insert_lgu(a, row), assistance_insert_admin(a, row)))
  /\ no_self_assistance(row) # F3
  /\ row.created_by # NULL /\ profiles[row.created_by].role # NULL
  /\ BarangayExists(row.recipient_barangay_id)
  /\ row.helping_barangay_id # NULL => BarangayExists(row.helping_barangay_id)

OfferRow(helping_b, helping_m, recipient, description, created_by) ==
  [helping_barangay_id |-> helping_b, helping_municipality_id |-> helping_m,
   recipient_barangay_id |-> recipient, description |-> description,
   delivered_at |-> NoTime, created_by |-> created_by]

\* an insert sent to the table by a client
InsertAssistanceOffer(a, row) ==
  /\ IF OfferInsertAccepted(a, row)
     THEN /\ Len(offers) < MaxOffers
          /\ offers' = Append(offers, row)
          /\ last' = CallB("insert_offer", a, row.recipient_barangay_id, "id")
     ELSE /\ offers' = offers
          /\ last' = CallB("insert_offer", a, row.recipient_barangay_id, "error")
  /\ UNCHANGED <<now, profiles, barangays, requests, memberships, invites, reports,
                 statuses, accounts,
                 sessions>>

\* createAssistanceOffer(recipientBarangayId, description, userId), called by
\* a client signed in as a
createAssistanceOffer(a, recipientBarangayId, description, userId) ==
  LET profile == ReadProfile(a, userId)
      isMunicipal == profile.role = "municipal_responder" /\ profile.municipality_id # NULL
      helpingBarangayId == profile.barangay_id
      helpingMunicipalityId == profile.municipality_id
      payload == OfferRow(IF isMunicipal THEN NULL ELSE helpingBarangayId,
                          IF isMunicipal THEN helpingMunicipalityId ELSE NULL,
                          recipientBarangayId, trim(description), userId)
      refused ==
        \/ description = <<>> \/ Len(trim(description)) < 3
        \/ /\ ~(isMunicipal /\ helpingMunicipalityId # NULL)
           /\ \/ helpingBarangayId = NULL
              \/ helpingBarangayId = recipientBarangayId
  IN /\ IF ~refused /\ OfferInsertAccepted(a, payload)
        THEN /\ Len(offers) < MaxOffers
             /\ offers' = Append(offers, payload)
             /\ last' = CallB("offer", a, recipientBarangayId, "id")
        ELSE /\ offers' = offers
             /\ last' = CallB("offer", a, recipientBarangayId, "error")
     /\ UNCHANGED <<now, profiles, barangays, requests, memberships, invites, reports,
                    statuses, accounts,
                    sessions>>

\* markAssistanceDelivered(offerId): the UPDATE touches the row only when
\* assistance_update_own passes, and reports no error either way
markAssistanceDelivered(a, i) ==
  /\ i \in 1..Len(offers)
  /\ offers' = IF IsTrue(assistance_update_own(a, offers[i]))
               THEN [offers EXCEPT ![i].delivered_at = now]
               ELSE offers
  /\ last' = Call("delivered", a, 0, "ok")
  /\ UNCHANGED <<now, profiles, barangays, requests, memberships, invites, reports,
                 statuses, accounts,
                 sessions>>

\* the profiles an offering actor can have
AssistCast ==
  {[role |-> "barangay_responder", barangay_id |-> "b1", municipality_id |-> "m1"],
   [role |-> "lgu_responder", barangay_id |-> "b2", municipality_id |-> NULL],
   [role |-> "barangay_responder", barangay_id |-> NULL, municipality_id |-> NULL],
   [role |-> "municipal_responder", barangay_id |-> "b1", municipality_id |-> "m1"],
   [role |-> "admin", barangay_id |-> NULL, municipality_id |-> NULL]}

Descriptions == {<<>>, <<" ", "o", "k", " ">>, <<"r", "i", "c", "e", " ">>}

InitAssist ==
  /\ now = 1
  /\ profiles \in [Actors -> AssistCast]
  /\ barangays = BoundedBarangays
  /\ requests = <<>>
  /\ memberships = <<>>
  /\ invites = [c \in Codes |-> NoInvite]
  /\ reports = <<>>
  /\ offers = <<>>
  /\ statuses = <<>>
  /\ accounts = SeededAccounts
  /\ sessions = [s \in Sessions |-> Idle]
  /\ last = NoCall

CreateAssistanceOffer ==
  \E a \in Callers, recipient \in BarangayIds, d \in Descriptions, userId \in Callers :
    createAssistanceOffer(a, recipient, d, userId)

InsertOffer ==
  \E a \in Callers, hb \in BarangayIds \cup {NULL}, hm \in {"m1", NULL},
     recipient \in BarangayIds :
    InsertAssistanceOffer(a, OfferRow(hb, hm, recipient, <<"r", "i", "c", "e">>, a))

MarkDelivered == \E a \in Callers, i \in 1..MaxOffers : markAssistanceDelivered(a, i)

NextAssist ==
  \/ CreateAssistanceOffer
  \/ InsertOffer
  \/ MarkDelivered

SpecAssist == InitAssist /\ [][NextAssist]_vars

\* offers made and marked delivered while the clock runs
OfferRice ==
  \E a \in Callers, recipient \in BarangayIds :
    createAssistanceOffer(a, recipient, <<"r", "i", "c", "e">>, a)

NextDelivery ==
  \/ OfferRice
  \/ MarkDelivered
  \/ Tick

SpecDelivery == InitAssist /\ [][NextDelivery]_vars

\* ------------------------------------------------------ barangay status
\* public.barangay_status_enum after the status migration
BarangayStatusEnum ==
  {"normal", "in_need_of_resources", "in_need_of_manpower", "active_disaster"}

NEED_STATUSES == {"in_need_of_resources", "in_need_of_manpower", "active_disaster"}

LEGACY_NEED_STATUSES == {"on_alert", "under_threat"}

isNeedStatus(status) == status \in NEED_STATUSES \/ status \in LEGACY_NEED_STATUSES

\* the guard without the trim
DescriptionTooShort_Untrimmed(description) ==
  description = NULL \/ description = <<>> \/ Len(description) < 5

\* !description || description.trim().length < 5
DescriptionTooShort(description) ==
  description = NULL \/ description = <<>> \/ Len(trim(description)) < 5

\* the rows of one barangay, and the first of them in created_at DESC order
StatusRowsOf(b) == {i \in 1..Len(statuses) : statuses[i].barangay_id = b}

LatestStatusId(b) ==
  CHOOSE i \in StatusRowsOf(b) :
    \A j \in StatusRowsOf(b) : statuses[j].created_at <= statuses[i].created_at

\* the status fetchBarangaysWithStatus() reports for a barangay:
\* info?.status ?? 'normal'
CurrentStatus(b) ==
  IF StatusRowsOf(b) = {} THEN "normal" ELSE statuses[LatestStatusId(b)].status

barangay_status_insert_lgu(a, row) ==
  SqlAnd(current_user_is_lgu_type(a),
  SqlAnd(current_user_can_access_barangay(a, row.barangay_id),
         SqlEq(row.updated_by, a)))

barangay_status_insert_admin(a, row) ==
  SqlAnd(SqlIn(current_user_role(a), {"admin", "super_admin"}), SqlEq(row.updated_by, a))

\* whether the INSERT of a status row goes through: a policy passes, the
\* status is a label of the enum, the foreign keys resolve
StatusInsertAccepted(a, row) ==
  /\ IsTrue(SqlOr(barangay_status_insert_lgu(a, row), barangay_status_insert_admin(a, row)))
  /\ row.status \in BarangayStatusEnum
  /\ BarangayExists(row.barangay_id)
  /\ row.updated_by # NULL /\ profiles[row.updated_by].role # NULL

\* updateBarangayStatus(barangayId, status, userId, {description}), called by
\* a client signed in as a.  created_at is the rank of the row's timestamp:
\* every insert is later than the ones before it.
updateBarangayStatus(a, barangayId, status, userId, description) ==
  LET payload == [barangay_id |-> barangayId, status |-> status,
                  description |-> IF isNeedStatus(status) /\ description # NULL
                                  THEN trim(description) ELSE NULL,
                  updated_by |-> userId,
                  created_at |-> Len(statuses) + 1]
      refused == isNeedStatus(status) /\ DescriptionTooShort(description)
  IN /\ IF ~refused /\ StatusInsertAccepted(a, payload)
        THEN /\ Len(statuses) < MaxStatuses
             /\ statuses' = Append(statuses, payload)
             /\ last' = CallB("status", a, barangayId, "ok")
        ELSE /\ statuses' = statuses
             /\ last' = CallB("status", a, barangayId, "error")
     /\ UNCHANGED <<now, profiles, barangays, requests, memberships, invites, reports,
                    offers, accounts, sessions>>

\* fetchBarangaysWithStatus(): the approved barangays whose current status
\* is a need status, as the map offers them for assistance
fetchBarangaysWithStatus(a) ==
  /\ last' = [Call("fetch_status", a, 0, T3) EXCEPT
                !.rows = {b \in BarangayIds :
                            /\ barangays[b].boundary_approved_at # NoTime
                            /\ isNeedStatus(CurrentStatus(b))}]
  /\ UNCHANGED <<now, profiles, barangays, requests, memberships, invites, reports,
                 offers, statuses, accounts, sessions>>

StatusCast ==
  {[role |-> "barangay_responder", barangay_id |-> "b1", municipality_id |-> "m1"],
   [role |-> "lgu_responder", barangay_id |-> "b2", municipality_id |-> NULL],
   [role |-> "municipal_responder", barangay_id |-> NULL, municipality_id |-> "m1"],
   [role |-> "resident", barangay_id |-> NULL, municipality_id |-> NULL]}

StatusDescriptions ==
  {NULL, <<>>, <<" ", "o", "k", " ", " ">>, <<" ", "f", "l", "o", "o", "d">>}

InitStatus ==
  /\ now = 1
  /\ profiles \in [Actors -> StatusCast]
  /\ barangays = BoundedBarangays
  /\ requests = <<>>
  /\ memberships = <<>>
  /\ invites = [c \in Codes |-> NoInvite]
  /\ reports = <<>>
  /\ offers = <<>>
  /\ statuses = <<>>
  /\ accounts = SeededAccounts
  /\ sessions = [s \in Sessions |-> Idle]
  /\ last = NoCall

UpdateBarangayStatus ==
  \E a \in Actors, b \in BarangayIds,
     status \in {"normal", "in_need_of_manpower", "active_disaster", "on_alert"},
     userId \in Actors, d \in StatusDescriptions :
    updateBarangayStatus(a, b, status, userId, d)

FetchBarangaysWithStatus == \E a \in Callers : fetchBarangaysWithStatus(a)

OfferAssistance ==
  \E a \in Actors, recipient \in BarangayIds :
    createAssistanceOffer(a, recipient, <<"r", "i", "c", "e">>, a)

\* a status update as the dashboard sends it: for the signed-in user, with a
\* description long enough
DeclareStatus ==
  \E a \in Actors, b \in BarangayIds, status \in {"normal", "active_disaster"} :
    updateBarangayStatus(a, b, status, a, <<" ", "f", "l", "o", "o", "d">>)

NextStatus ==
  \/ UpdateBarangayStatus
  \/ FetchBarangaysWithStatus

SpecStatus == InitStatus /\ [][NextStatus]_vars

\* status updates interleaved with offers of assistance
NextNeed ==
  \/ DeclareStatus
  \/ FetchBarangaysWithStatus
  \/ OfferAssistance

SpecNeed == InitStatus /\ [][NextNeed]_vars

\* ------------------------------------------- boundary and profile edits
\* save_barangay_boundary(p_barangay_id, p_boundary_geojson)
save_barangay_boundary(a, p_barangay_id, p_boundary_geojson) ==
  LET refused ==
        \/ IsTrue(SqlNot(SqlIn(current_user_role(a), {"lgu_responder", "barangay_responder"})))
        \/ current_user_barangay_id(a) # p_barangay_id
      found == p_barangay_id # NULL /\ BarangayExists(p_barangay_id)
  IN /\ IF ~refused /\ found
        THEN /\ barangays' = [barangays EXCEPT
                                ![p_barangay_id].boundary_geojson = p_boundary_geojson]
             /\ last' = CallB("save_boundary", a, p_barangay_id, T3)
        ELSE /\ barangays' = barangays
             /\ last' = CallB("save_boundary", a, p_barangay_id, F3)
     /\ UNCHANGED <<now, profiles, requests, memberships, invites, reports, offers,
                    statuses, accounts, sessions>>

\* update_barangay_profile(p_barangay_id, p_description, ...)
update_barangay_profile(a, p_barangay_id, p_description) ==
  LET refused == IsTrue(SqlNot(current_user_can_access_barangay(a, p_barangay_id)))
      found == p_barangay_id # NULL /\ BarangayExists(p_barangay_id)
      text == Trim(IF p_description = NULL THEN "" ELSE p_description)
  IN /\ IF ~refused /\ found
        THEN /\ barangays' = [barangays EXCEPT
                                ![p_barangay_id].description =
                                   IF text = "" THEN NULL ELSE text]
             /\ last' = CallB("update_profile", a, p_barangay_id, T3)
        ELSE /\ barangays' = barangays
             /\ last' = CallB("update_profile", a, p_barangay_id, F3)
     /\ UNCHANGED <<now, profiles, requests, memberships, invites, reports, offers,
                    statuses, accounts, sessions>>

\* a requester of one of the roles that may submit, and an admin
InitBoundary ==
  /\ now = 1
  /\ \E r1 \in LguRoles :
       profiles = [a \in Actors |->
                     IF a = "u1"
                     THEN [role |-> r1, barangay_id |-> NULL, municipality_id |-> "m1"]
                     ELSE [role |-> "admin", barangay_id |-> NULL,
                           municipality_id |-> NULL]]
  /\ barangays = [b \in BarangayIds |->
                    IF b = "b1"
                    THEN [NoBarangay EXCEPT !.municipality_id = "m1", !.name = "Centro"]
                    ELSE NoBarangay]
  /\ requests = <<>>
  /\ memberships = <<>>
  /\ invites = [c \in Codes |-> NoInvite]
  /\ reports = <<>>
  /\ offers = <<>>
  /\ statuses = <<>>
  /\ accounts = SeededAccounts
  /\ sessions = [s \in Sessions |-> Idle]
  /\ last = NoCall

SaveBarangayBoundary ==
  \E a \in Actors, b \in BarangayIds \cup {NULL}, g \in {"g2", NULL} :
    save_barangay_boundary(a, b, g)

UpdateBarangayProfile ==
  \E a \in Actors, b \in BarangayIds, d \in {NULL, " ", "rice"} :
    update_barangay_profile(a, b, d)

NextBoundary ==
  \/ SubmitBoundaryRequest
  \/ ApproveBoundaryRequest
  \/ RejectBoundaryRequest
  \/ SaveBarangayBoundary
  \/ UpdateBarangayProfile
  \/ Tick

SpecBoundary == InitBoundary /\ [][NextBoundary]_vars

\* ------------------------------------- the contact checks of a submission
\* [^\s@]+ : a non-empty run without a blank or an @
EmailRun(t) == t # <<>> /\ \A i \in 1..Len(t) : t[i] \notin {" ", "@"}

\* /^[^\s@]+@[^\s@]+\.[^\s@]+$/ of the new-area form
EmailPattern(e) ==
  \E i \in 1..Len(e), j \in 1..Len(e) :
    /\ i < j
    /\ e[i] = "@"
    /\ e[j] = "."
    /\ EmailRun(SubSeq(e, 1, i - 1))
    /\ EmailRun(SubSeq(e, i + 1, j - 1))
    /\ EmailRun(SubSeq(e, j + 1, Len(e)))

Digits == {"0", "1", "2", "3", "4", "5", "6", "7", "8", "9"}

IsSeparator(c) == c \in {" ", "-"}

IsKept(c) == ~IsSeparator(c)

\* /^(09\d{9}|\+639\d{9})$/ on the phone without its blanks and dashes
PhonePattern(p) ==
  LET q == SelectSeq(p, IsKept)
  IN \/ /\ Len(q) = 11
        /\ q[1] = "0" /\ q[2] = "9"
        /\ \A i \in 3..11 : q[i] \in Digits
     \/ /\ Len(q) = 13
        /\ q[1] = "+" /\ q[2] = "6" /\ q[3] = "3" /\ q[4] = "9"
        /\ \A i \in 5..13 : q[i] \in Digits

\* submitBoundaryRequest() of the service: the arguments trimmed, a missing
\* barangay sent as the zero uuid, then the RPC
submitBoundaryRequest(a, municipalityId, barangayId, barangayName, boundaryGeojson, contactEmail, contactPhone) ==
  submit_barangay_boundary_request(a, municipalityId,
      IF barangayId = NULL THEN ZeroUuid ELSE barangayId,
      Trim(barangayName), boundaryGeojson, trim(contactEmail), trim(contactPhone))

Names == {"Tulay", " "}

Emails == {GoodEmail, <<"x">>, <<"a", "@", "b">>, <<" ">>}

Phones == {GoodPhone, <<"+", "6", "3", "9", "1", "7", "1", "2", "3", "4", "5", "6", "7">>,
           <<"1", "2", "3">>, <<" ">>}

SubmitRequest ==
  \E a \in SignedIn, m \in Municipalities, b \in {NULL, "b1"}, name \in Names,
     g \in {"g1", NULL}, email \in Emails, phone \in Phones :
    submitBoundaryRequest(a, m, b, name, g, email, phone)

NextSubmit == SubmitRequest

SpecSubmit == InitBoundary /\ [][NextSubmit]_vars

\* the same store with responders joining and leaving barangays as well
NextMembership ==
  \/ NextBoundary
  \/ JoinBarangay
  \/ LeaveBarangay

SpecMembership == InitBoundary /\ [][NextMembership]_vars

\* ----------------------------------------------------------------- login
\* check_login_eligibility(check_email), for the e-mail of account u:
\* COALESCE of a subquery that has no row unless u is a responder
check_login_eligibility(u) ==
  IF profiles[u].role \in LguRoles
  THEN accounts[u].proof_of_employment_url # NULL /\ ~accounts[u].email_confirmed
  ELSE FALSE

\* supabase.auth.signInWithPassword with the right password, as handleLogin
\* tells its outcomes apart
signInWithPassword(u) ==
  IF profiles[u].role = NULL THEN "invalid"
  ELSE IF ~accounts[u].email_confirmed THEN "email_not_confirmed"
  ELSE "signed_in"

\* handleLogin(): the pre-check is skipped when the RPC fails
handleLogin(u, rpc_failed) ==
  LET is_proof_pending == ~rpc_failed /\ check_login_eligibility(u)
  IN /\ last' = Call("login", u, 0,
                     IF is_proof_pending THEN "proof_pending" ELSE signInWithPassword(u))
     /\ UNCHANGED <<now, profiles, barangays, requests, memberships, invites, reports,
                    offers, statuses, accounts, sessions>>

\* the account holder follows the confirmation link
ConfirmEmail(u) ==
  /\ profiles[u].role # NULL
  /\ ~accounts[u].email_confirmed
  /\ accounts' = [accounts EXCEPT ![u].email_confirmed = TRUE]
  /\ last' = Call("confirm", u, 0, T3)
  /\ UNCHANGED <<now, profiles, barangays, requests, memberships, invites, reports,
                 offers, statuses, sessions>>

SignupWithProof ==
  \E a \in Actors, r \in Roles, proof \in {NULL, "proof.pdf"} :
    handle_new_user(a, r, "m1", NULL, proof)

HandleLogin == \E u \in Actors, rpc_failed \in BOOLEAN : handleLogin(u, rpc_failed)

FollowConfirmationLink == \E u \in Actors : ConfirmEmail(u)

NextLogin ==
  \/ SignupWithProof
  \/ HandleLogin
  \/ FollowConfirmationLink

SpecLogin == Init /\ [][NextLogin]_vars

\* ======================================================== the claims

\* what the database holds after session w alone has written its decision
C4_Outcome(w) ==
  LET r == sessions[w].req IN
  /\ requests[r].reviewed_by = sessions[w].actor
  /\ IF sessions[w].op = "approve"
     THEN /\ requests[r].status = "approved"
          /\ Len(memberships) = 1
          /\ memberships[1].is_creator
          /\ memberships[1].profile_id = requests[r].requested_by
          /\ profiles[requests[r].requested_by].barangay_id = memberships[1].barangay_id
          /\ barangays[memberships[1].barangay_id].boundary_approved_at # NoTime
     ELSE /\ requests[r].status = "rejected"
          /\ Len(memberships) = 0
          /\ profiles[requests[r].requested_by].barangay_id = NULL
          /\ \A b \in BarangayIds : barangays[b].boundary_approved_at = NoTime

\* C4: of two calls to approve or reject that authorized reviewers issued on
\* the same request while it was pending, exactly one returns true; the
\* request carries that call's outcome and reviewer, and the requester has a
\* barangay, an approved boundary and one creator membership only if the
\* winner was an approval
C4_ExactlyOneReviewWins ==
  \A s \in Sessions, o \in Sessions :
    ( /\ s # o
      /\ sessions[s].pc = "done" /\ sessions[o].pc = "done"
      /\ sessions[s].op \in ReviewOps /\ sessions[o].op \in ReviewOps
      /\ sessions[s].req = sessions[o].req
      /\ sessions[s].valid_at_call /\ sessions[o].valid_at_call )
    => /\ (sessions[s].ret = T3) # (sessions[o].ret = T3)
       /\ sessions[s].ret = T3 => C4_Outcome(s)

\* an approval and a rejection raced; the rejection won and the approval,
\* which had passed its permission read, came back false
C4_Witness ==
  /\ sessions["s1"].pc = "done" /\ sessions["s2"].pc = "done"
  /\ sessions["s1"].op = "approve" /\ sessions["s2"].op = "reject"
  /\ sessions["s1"].req = sessions["s2"].req
  /\ sessions["s1"].valid_at_call /\ sessions["s2"].valid_at_call
  /\ sessions["s1"].ret = F3 /\ sessions["s2"].ret = T3

\* C1: every actor has at most one membership with left_at unset, in every
\* reachable state of signup, submit, approve, reject, join and leave
C1_SingleOpenMembership ==
  \A a \in Actors : Cardinality(OpenMemberships(a)) <= 1

\* C2: an approve or reject of a pending request by anyone but an authorized
\* reviewer returns false and leaves requests, barangays, profiles and
\* memberships as they were
C2_ReviewOnlyByAuthorized ==
  [][\A a \in SignedIn, r \in ReqIds :
       ( /\ PendingRequest(r)
         /\ ~AuthorizedReviewer(a, r)
         /\ \/ approve_barangay_boundary_request(a, r)
            \/ \E reason \in Reasons :
                 /\ (requests'[r].rejection_reason = NULL)
                      = (RejectionReason(reason) = NULL)
                 /\ reject_barangay_boundary_request(a, r, reason) )
       => /\ last'.ret = F3
          /\ UNCHANGED <<requests, barangays, profiles, memberships>>]_vars

\* C3: approving a request that is already approved returns false and
\* changes no barangay, profile, membership or request
C3_SecondApprovalNoOp ==
  [][\A a \in SignedIn, r \in ReqIds :
       ( /\ r \in 1..Len(requests)
         /\ requests[r].status = "approved"
         /\ approve_barangay_boundary_request(a, r) )
       => /\ last'.ret = F3
          /\ UNCHANGED <<requests, barangays, profiles, memberships>>]_vars

\* an admin's second approval of an approved request has come back false
C3_Witness ==
  /\ last.op = "approve"
  /\ last.ret = F3
  /\ last.actor # NULL
  /\ profiles[last.actor].role \in {"admin", "super_admin"}
  /\ last.req \in 1..Len(requests)
  /\ requests[last.req].status = "approved"

\* C5: of two claims that two different actors issued with the same code while
\* it was unused, the code staying unexpired throughout, exactly one returns
\* true; used_by names that actor, whose role is admin, and the other
\* actor's role is what it was
C5_ExactlyOneClaimWins ==
  \A s \in Sessions, o \in Sessions :
    ( /\ s # o
      /\ sessions[s].pc = "done" /\ sessions[o].pc = "done"
      /\ sessions[s].op = "claim" /\ sessions[o].op = "claim"
      /\ sessions[s].code = sessions[o].code
      /\ sessions[s].valid_at_call /\ sessions[o].valid_at_call
      /\ sessions[s].actor # NULL /\ sessions[o].actor # NULL
      /\ sessions[s].actor # sessions[o].actor
      /\ invites[sessions[s].code].expires_at > now )
    => /\ (sessions[s].ret = T3) # (sessions[o].ret = T3)
       /\ sessions[s].ret = T3 =>
            /\ invites[sessions[s].code].used_by = sessions[s].actor
            /\ profiles[sessions[s].actor].role = "admin"
            /\ sessions[o].ret = F3
            /\ profiles[sessions[o].actor].role = sessions[o].role_at_call

\* two actors raced for one code: u2 won and is admin, u1 lost and is still
\* super_admin
C5_Witness ==
  \E s \in Sessions, o \in Sessions :
    /\ sessions[s].pc = "done" /\ sessions[o].pc = "done"
    /\ sessions[s].op = "claim" /\ sessions[o].op = "claim"
    /\ sessions[s].code = sessions[o].code
    /\ sessions[s].valid_at_call /\ sessions[o].valid_at_call
    /\ sessions[s].actor = "u2" /\ sessions[o].actor = "u1"
    /\ sessions[s].ret = T3 /\ sessions[o].ret = F3
    /\ sessions[s].role_at_call # "admin"
    /\ profiles["u2"].role = "admin" /\ profiles["u1"].role = "super_admin"
    /\ invites[sessions[s].code].expires_at > now

\* C6: a claim whose code matches no invite, or an invite already used, or
\* one whose expires_at is not after now, returns false with no invite and
\* no profile changed
C6_InvalidClaimNoOp ==
  [][\A s \in Sessions :
       ( /\ ClaimSelect(s)
         /\ LET code == sessions[s].code IN
              \/ code \notin Codes
              \/ invites[code].expires_at = NoTime
              \/ invites[code].used_at # NoTime
              \/ invites[code].expires_at <= now )
       => /\ sessions'[s].pc = "done"
          /\ sessions'[s].ret = F3
          /\ UNCHANGED <<invites, profiles>>]_vars

\* a claim of an unused invite at its expiry instant has come back false
C6_Witness ==
  \E s \in Sessions :
    /\ sessions[s].pc = "done"
    /\ sessions[s].op = "claim"
    /\ sessions[s].ret = F3
    /\ sessions[s].code \in Codes
    /\ invites[sessions[s].code].used_at = NoTime
    /\ invites[sessions[s].code].expires_at = now
    /\ sessions[s].actor # NULL
    /\ profiles[sessions[s].actor].role = sessions[s].role_at_call

\* the readers the specification scopes to a report: its reporter, admins,
\* barangay-level responders of its barangay, municipal responders of its
\* municipality
ScopedReader(a, row) ==
  /\ a # NULL
  /\ \/ a = row.reporter_id
     \/ profiles[a].role \in {"admin", "super_admin"}
     \/ /\ profiles[a].role \in {"lgu_responder", "barangay_responder"}
        /\ profiles[a].barangay_id = row.barangay_id
     \/ /\ profiles[a].role = "municipal_responder"
        /\ profiles[a].municipality_id # NULL
        /\ profiles[a].municipality_id = barangays[row.barangay_id].municipality_id

C8_AcknowledgedStaysReadable ==
  /\ \A a \in Callers, i \in 1..Len(reports) :
       reports[i].ever_acknowledged => IsTrue(reports_select(a, reports[i]))
  /\ last.op = "fetch" =>
       \A i \in 1..Len(reports) : reports[i].ever_acknowledged => i \in last.rows

\* a guest has fetched a report that was acknowledged and then set back to
\* pending
C8_Witness ==
  /\ last.op = "fetch"
  /\ last.actor = NULL
  /\ \E i \in last.rows :
       reports[i].ever_acknowledged /\ reports[i].status = "pending"

\* the inserts C9 denies: by a barangay-level responder for a barangay other
\* than their own or without a barangay of their own, and for a reporter
\* other than the inserting actor
C9_Denied(a, reporterId, b) ==
  \/ reporterId # a
  \/ /\ a # NULL
     /\ profiles[a].role \in {"lgu_responder", "barangay_responder"}
     /\ \/ profiles[a].barangay_id = NULL
        \/ profiles[a].barangay_id # b

\* C9: createHazardReport by a barangay_responder or lgu_responder for a
\* barangay that is not their own, or by one with no barangay, or with a
\* reporterId other than the caller, returns an error and adds no report
C9_ScopedInsertDenied ==
  [][\A a \in Callers, reporterId \in Callers, b \in BarangayIds :
       ( /\ last'.op = "report"
         /\ C9_Denied(a, reporterId, b)
         /\ createHazardReport(a, reporterId, b) )
       => /\ reports' = reports
          /\ last'.ret = "error"]_vars

\* a barangay-level responder with a barangay of their own has been refused
\* a report for the other barangay, after a report was accepted
C9_Witness ==
  /\ last.op = "report"
  /\ last.ret = "error"
  /\ last.actor # NULL
  /\ profiles[last.actor].role \in {"lgu_responder", "barangay_responder"}
  /\ profiles[last.actor].barangay_id # NULL
  /\ profiles[last.actor].barangay_id # last.brgy
  /\ Len(reports) > 0

\* C10: createAssistanceOffer by a barangay_responder or lgu_responder for
\* the barangay of their own profile returns an error and stores no offer,
\* and no stored offer has helping_barangay_id equal to recipient_barangay_id
C10_NoSelfAssistance ==
  /\ [](\A i \in 1..Len(offers) :
          offers[i].helping_barangay_id # offers[i].recipient_barangay_id)
  /\ [][\A a \in Actors, recipient \in BarangayIds, d \in Descriptions :
          ( /\ last'.op = "offer"
            /\ profiles[a].role \in {"lgu_responder", "barangay_responder"}
            /\ profiles[a].barangay_id = recipient
            /\ createAssistanceOffer(a, recipient, d, a) )
          => /\ offers' = offers
             /\ last'.ret = "error"]_vars

\* a barangay-level responder who has an offer to another barangay on record
\* has been refused an offer to their own
C10_Witness ==
  /\ last.op = "offer"
  /\ last.ret = "error"
  /\ last.actor # NULL
  /\ profiles[last.actor].role \in {"lgu_responder", "barangay_responder"}
  /\ profiles[last.actor].barangay_id = last.brgy
  /\ \E i \in 1..Len(offers) :
       /\ offers[i].created_by = last.actor
       /\ offers[i].helping_barangay_id = profiles[last.actor].barangay_id

\* C11: createAssistanceOffer for a recipient barangay whose current status
\* is not a need status, or that has no status row, returns an error and
\* stores no offer
C11_OfferOnlyWhileInNeed ==
  [][\A a \in Actors, recipient \in BarangayIds :
       ( /\ last'.op = "offer"
         /\ ~isNeedStatus(CurrentStatus(recipient))
         /\ createAssistanceOffer(a, recipient, <<"r", "i", "c", "e">>, a) )
       => /\ offers' = offers
          /\ last'.ret = "error"]_vars

\* the guard C12 speaks of: a responder signed in as themselves whose scope
\* holds the barangay
ScopedResponder(a, b) ==
  /\ profiles[a].role \in LguRoles
  /\ \/ /\ profiles[a].role \in {"lgu_responder", "barangay_responder"}
        /\ profiles[a].barangay_id = b
     \/ /\ profiles[a].role = "municipal_responder"
        /\ profiles[a].municipality_id # NULL
        /\ profiles[a].municipality_id = barangays[b].municipality_id

\* C12: updateBarangayStatus with a need status and a description that is
\* missing or shorter than 5 characters once trimmed returns an error and
\* adds no row, so the current status stays; with a longer description, by
\* a responder scoped to the barangay, it adds one row, which is the
\* barangay's current status
C12_NeedStatusRequiresDescription ==
  [][last'.op = "status" =>
     \A a \in {last'.actor}, b \in {last'.brgy}, status \in NEED_STATUSES,
        d \in StatusDescriptions :
       ( /\ Len(statuses') > Len(statuses) =>
              statuses'[Len(statuses')].status = status
         /\ updateBarangayStatus(a, b, status, a, d) )
       => /\ (d = NULL \/ Len(trim(d)) < 5) =>
               /\ statuses' = statuses
               /\ last'.ret = "error"
               /\ CurrentStatus(b)' = CurrentStatus(b)
          /\ (d # NULL /\ Len(trim(d)) >= 5 /\ ScopedResponder(a, b)) =>
               /\ Len(statuses') = Len(statuses) + 1
               /\ SubSeq(statuses', 1, Len(statuses)) = statuses
               /\ LatestStatusId(b)' = Len(statuses')
               /\ CurrentStatus(b)' = status
               /\ last'.ret = "ok"]_vars

\* a barangay whose status row said normal has a newer row with a need
\* status, written by a responder of that barangay, and that is its status
C12_Witness ==
  /\ last.op = "status"
  /\ last.ret = "ok"
  /\ Len(statuses) = 2
  /\ statuses[1].barangay_id = statuses[2].barangay_id
  /\ statuses[1].status = "normal"
  /\ statuses[2].status \in NEED_STATUSES
  /\ statuses[2].updated_by = last.actor
  /\ ScopedResponder(last.actor, last.brgy)
  /\ CurrentStatus(last.brgy) = statuses[2].status

\* C13: every barangay whose boundary_approved_at is set has a
\* boundary_geojson that is not null
C13_ApprovedHasGeometry ==
  \A b \in BarangayIds :
    barangays[b].boundary_approved_at # NoTime => barangays[b].boundary_geojson # NULL

\* C14: for every actor, the profile's barangay_id is b exactly when the
\* actor has an open membership on b, and is unset exactly when the actor
\* has no open membership
C14_ProfileMirrorsOpenMembership ==
  \A a \in Actors :
    /\ \A b \in BarangayIds :
         profiles[a].barangay_id = b
           <=> \E i \in OpenMemberships(a) : memberships[i].barangay_id = b
    /\ profiles[a].barangay_id = NULL <=> OpenMemberships(a) = {}

\* C15: a login to a responder account that has a proof of employment on
\* file, which no admin has verified, ends at the proof-pending notice and
\* never reaches the credential sign-in, whether or not the eligibility
\* check fails
C15_ProofPendingBlocksLogin ==
  ( /\ last.op = "login"
    /\ profiles[last.actor].role \in LguRoles
    /\ accounts[last.actor].proof_of_employment_url # NULL )
  => last.ret = "proof_pending"

\* C16: two joinBarangay calls of one actor that run at the same time never
\* both return true, and never leave the actor with two open memberships
C16_ConcurrentJoinsOneWins ==
  \A s \in Sessions, o \in Sessions :
    (/\ s # o
     /\ sessions[s].op = "join" /\ sessions[o].op = "join"
     /\ sessions[s].actor = sessions[o].actor
     /\ sessions[s].pc = "done" /\ sessions[o].pc = "done")
    => /\ ~(sessions[s].ret = T3 /\ sessions[o].ret = T3)
       /\ sessions[s].actor # NULL =>
            Cardinality(OpenMemberships(sessions[s].actor)) <= 1

\* C17: a boundary request is pending when it is inserted, and once it is
\* approved or rejected no step changes its status, reviewed_by, reviewed_at
\* or rejection_reason
C17_ReviewedIsTerminal ==
  [][/\ Len(requests') >= Len(requests)
     /\ \A r \in 1..Len(requests) :
          requests[r].status # "pending"
          => /\ requests'[r].status = requests[r].status
             /\ requests'[r].reviewed_by = requests[r].reviewed_by
             /\ requests'[r].reviewed_at = requests[r].reviewed_at
             /\ requests'[r].rejection_reason = requests[r].rejection_reason
     /\ \A r \in (Len(requests) + 1)..Len(requests') :
          requests'[r].status = "pending"]_vars

\* an admin has tried, after the review and at a later time, to approve or
\* reject a request that another step had already reviewed
C17_Witness ==
  /\ last.op \in {"approve", "reject"}
  /\ last.actor # NULL
  /\ profiles[last.actor].role = "admin"
  /\ last.req \in 1..Len(requests)
  /\ requests[last.req].status \in {"approved", "rejected"}
  /\ requests[last.req].reviewed_at < now
  /\ last.ret = F3

\* C18: once delivered_at of an offer is set, no step clears or changes it
C18_DeliveredAtIsFinal ==
  [][\A i \in 1..Len(offers) :
       offers[i].delivered_at # NoTime
       => offers'[i].delivered_at = offers[i].delivered_at]_vars

\* C19: join_barangay returns true exactly when the caller holds one of the
\* three responder roles, has no open membership and the barangay exists with
\* boundary_approved_at and boundary_geojson set; it then appends one open
\* membership with is_creator false and points the caller's profile at the
\* barangay and its municipality.  Otherwise it does not return true and
\* changes neither profiles nor memberships.
C19_JoinOnlyWhenAllowed ==
  [][last'.op = "join" =>
       \A a \in {last'.actor}, b \in BarangayIds :
         join_barangay(a, b)
         => IF /\ a # NULL
               /\ profiles[a].role \in LguRoles
               /\ \A i \in 1..Len(memberships) :
                    memberships[i].profile_id = a => memberships[i].left_at # NoTime
               /\ barangays[b].municipality_id # NULL
               /\ barangays[b].boundary_approved_at # NoTime
               /\ barangays[b].boundary_geojson # NULL
            THEN /\ last'.ret = T3
                 /\ memberships' = Append(memberships,
                        [profile_id |-> a, barangay_id |-> b, is_creator |-> FALSE,
                         left_at |-> NoTime])
                 /\ profiles' = [profiles EXCEPT
                        ![a].barangay_id = b,
                        ![a].municipality_id = barangays[b].municipality_id]
            ELSE /\ last'.ret # T3
                 /\ UNCHANGED <<profiles, memberships>>]_vars

\* a responder who had left a barangay has joined one: the closed membership
\* is followed by an open one that is not a creator's
C19_Witness ==
  /\ last.op = "join"
  /\ last.ret = T3
  /\ \E i \in 1..Len(memberships), j \in 1..Len(memberships) :
       /\ i < j
       /\ memberships[i].profile_id = last.actor
       /\ memberships[i].left_at # NoTime
       /\ memberships[j].profile_id = last.actor
       /\ memberships[j].left_at = NoTime
       /\ ~memberships[j].is_creator
       /\ profiles[last.actor].barangay_id = memberships[j].barangay_id

\* C20: leave_barangay by a caller with one of the three responder roles and
\* an open membership returns true, sets left_at on an open membership of
\* the caller, clears the caller's barangay_id and municipality_id and leaves
\* the caller with no open membership; by any other caller it returns false
\* and changes neither profiles nor memberships
C20_LeaveClosesMembership ==
  [][last'.op = "leave" =>
       \A a \in {last'.actor} :
         leave_barangay(a)
         => IF a # NULL /\ profiles[a].role \in LguRoles /\ OpenMemberships(a) # {}
            THEN /\ last'.ret = T3
                 /\ \E i \in OpenMemberships(a) :
                      memberships' = [memberships EXCEPT ![i].left_at = now]
                 /\ profiles'[a].barangay_id = NULL
                 /\ profiles'[a].municipality_id = NULL
                 /\ OpenMemberships(a)' = {}
            ELSE /\ last'.ret = F3
                 /\ UNCHANGED <<profiles, memberships>>]_vars

\* C21: an approval that returns true finds the request pending and makes
\* exactly these writes: a request naming no barangay gets a new barangays
\* row with its municipality, name and geometry, approved now, and a request
\* naming a barangay has that row's geometry set and approved now; the
\* requester's profile points at that barangay and the request's
\* municipality; one open creator membership of the requester on that
\* barangay is added; the request is approved, reviewed by the caller
C21_ApprovalEffects ==
  [][(last'.op = "approve" /\ last'.ret = T3) =>
       \A a \in {last'.actor}, r \in {last'.req} :
         approve_barangay_boundary_request(a, r)
         => LET q == requests[r]
            IN /\ q.status = "pending"
               /\ \E b \in BarangayIds :
                    /\ IF q.barangay_id = NULL
                       THEN /\ barangays[b] = NoBarangay
                            /\ barangays'[b].municipality_id = q.municipality_id
                            /\ barangays'[b].name = q.barangay_name
                       ELSE /\ b = q.barangay_id
                            /\ barangays'[b].municipality_id = barangays[b].municipality_id
                            /\ barangays'[b].name = barangays[b].name
                            /\ barangays'[b].description = barangays[b].description
                    /\ barangays'[b].boundary_geojson = q.boundary_geojson
                    /\ barangays'[b].boundary_approved_at = now
                    /\ \A o \in BarangayIds \ {b} : barangays'[o] = barangays[o]
                    /\ profiles'[q.requested_by].barangay_id = b
                    /\ profiles'[q.requested_by].municipality_id = q.municipality_id
                    /\ profiles'[q.requested_by].role = profiles[q.requested_by].role
                    /\ \A o \in Actors \ {q.requested_by} : profiles'[o] = profiles[o]
                    /\ Len(memberships') = Len(memberships) + 1
                    /\ SubSeq(memberships', 1, Len(memberships)) = memberships
                    /\ memberships'[Len(memberships')] =
                         [profile_id |-> q.requested_by, barangay_id |-> b,
                          is_creator |-> TRUE, left_at |-> NoTime]
               /\ requests'[r].status = "approved"
               /\ requests'[r].reviewed_by = a
               /\ requests'[r].reviewed_at = now
               /\ \A o \in 1..Len(requests) \ {r} : requests'[o] = requests[o]
               /\ Len(requests') = Len(requests)]_vars

\* a request that named no barangay has been approved at a later time than
\* the start: a barangay with its name exists and the requester is its
\* creator
C21_Witness ==
  /\ last.op = "approve"
  /\ last.ret = T3
  /\ now > 1
  /\ requests[last.req].status = "approved"
  /\ requests[last.req].barangay_id = NULL
  /\ requests[last.req].reviewed_at = now
  /\ \E b \in BarangayIds, i \in 1..Len(memberships) :
       /\ barangays[b].name = requests[last.req].barangay_name
       /\ barangays[b].boundary_approved_at = now
       /\ profiles[requests[last.req].requested_by].barangay_id = b
       /\ memberships[i] = [profile_id |-> requests[last.req].requested_by,
                            barangay_id |-> b, is_creator |-> TRUE,
                            left_at |-> NoTime]

\* C22: a rejection that returns true sets the request to rejected, records
\* the caller and the time of the review and the trimmed reason, a missing or
\* blank reason as none, and changes no barangay, profile or membership
C22_RejectionEffects ==
  [][(last'.op = "reject" /\ last'.ret = T3) =>
       \A a \in {last'.actor}, r \in {last'.req}, reason \in Reasons :
         ( /\ (requests'[r].rejection_reason = NULL)
                = (reason = NULL \/ trim(reason) = <<>>)
           /\ reject_barangay_boundary_request(a, r, reason) )
         => /\ requests'[r].status = "rejected"
            /\ requests'[r].reviewed_by = a
            /\ requests'[r].reviewed_at = now
            /\ IF reason = NULL \/ trim(reason) = <<>>
               THEN requests'[r].rejection_reason = NULL
               ELSE /\ trim(reason) = requests'[r].rejection_reason
                    /\ Head(requests'[r].rejection_reason) # " "
                    /\ requests'[r].rejection_reason[Len(requests'[r].rejection_reason)] # " "
            /\ UNCHANGED <<barangays, profiles, memberships>>]_vars

\* a padded reason has been recorded without its padding by an admin
C22_Witness ==
  /\ last.op = "reject"
  /\ last.ret = T3
  /\ last.actor # NULL
  /\ profiles[last.actor].role = "admin"
  /\ requests[last.req].status = "rejected"
  /\ requests[last.req].reviewed_by = last.actor
  /\ <<"o", "k">> = requests[last.req].rejection_reason

\* C23: a submit returns an id only for a caller holding one of the three
\* responder roles, and then appends exactly one request, pending and
\* requested by the caller; no submit changes a profile, a barangay or a
\* membership; for a resident, admin or super_admin it returns no id and
\* adds no request
C23_SubmitOnlyByResponder ==
  [][last'.op = "submit" =>
       \A a \in {last'.actor} :
         (\E m \in Municipalities, b \in BarangayIds \cup {ZeroUuid}, g \in {"g1", NULL} :
            submit_barangay_boundary_request(a, m, b, "Tulay", g, GoodEmail, GoodPhone))
         => /\ UNCHANGED <<profiles, barangays, memberships>>
            /\ IF last'.ret = "id"
               THEN /\ a # NULL
                    /\ profiles[a].role \in LguRoles
                    /\ Len(requests') = Len(requests) + 1
                    /\ SubSeq(requests', 1, Len(requests)) = requests
                    /\ requests'[Len(requests')].status = "pending"
                    /\ requests'[Len(requests')].requested_by = a
               ELSE requests' = requests
            /\ (a # NULL /\ profiles[a].role \in {"resident", "admin", "super_admin"})
               => last'.ret # "id"]_vars

\* a responder's request is in the store, pending, while an admin and the
\* responder both have accounts
C23_Witness ==
  /\ last.op = "submit"
  /\ last.ret = "id"
  /\ last.req = Len(requests)
  /\ requests[last.req].status = "pending"
  /\ requests[last.req].requested_by = last.actor
  /\ profiles[last.actor].role \in LguRoles
  /\ \E o \in Actors : profiles[o].role \in {"resident", "admin", "super_admin"}

\* C24: a submission whose name is empty, whose geometry is null, whose
\* e-mail does not match the e-mail pattern or whose phone does not match
\* the Philippine pattern returns no id and adds no request
C24_SubmitValidatesContact ==
  [][last'.op = "submit" =>
       \A a \in {last'.actor}, name \in Names, g \in {"g1", NULL}, email \in Emails,
          phone \in Phones :
         ( /\ \/ Trim(name) = ""
              \/ g = NULL
              \/ ~EmailPattern(trim(email))
              \/ ~PhonePattern(phone)
           /\ \E m \in Municipalities, b \in {NULL, "b1"} :
                submitBoundaryRequest(a, m, b, name, g, email, phone) )
         => /\ last'.ret # "id"
            /\ requests' = requests]_vars

\* C25: every profile whose role is municipal_responder has a municipality_id
\* and no barangay_id
C25_MunicipalResponderScope ==
  \A a \in Actors :
    profiles[a].role = "municipal_responder"
    => /\ profiles[a].municipality_id # NULL
       /\ profiles[a].barangay_id = NULL

\* C26: the municipality_id of every profile with a barangay_id is the
\* municipality of that barangay
C26_MunicipalityOfBarangay ==
  \A a \in Actors :
    profiles[a].barangay_id # NULL
    => profiles[a].municipality_id = barangays[profiles[a].barangay_id].municipality_id

\* C27: no step takes a report from resolved to acknowledged or pending, or
\* from acknowledged to pending
C27_ReportStatusForwardOnly ==
  [][\A i \in 1..Len(reports) :
       <<reports[i].status, reports'[i].status>> \notin
         {<<"resolved", "acknowledged">>, <<"resolved", "pending">>,
          <<"acknowledged", "pending">>}]_vars

\* C28: every stored offer has exactly one of helping_barangay_id and
\* helping_municipality_id set
C28_ExactlyOneHelper ==
  \A i \in 1..Len(offers) :
    (offers[i].helping_barangay_id # NULL) # (offers[i].helping_municipality_id # NULL)

\* C29: no save_barangay_boundary step changes the boundary_geojson of a
\* barangay, and one made by a caller who is not the creator of the barangay
\* returns false
C29_SaveNeverWritesGeometry ==
  [][last'.op = "save_boundary" =>
       /\ \A b \in BarangayIds :
            barangays'[b].boundary_geojson = barangays[b].boundary_geojson
       /\ (\A i \in 1..Len(memberships) :
             ~(/\ memberships[i].profile_id = last'.actor
               /\ memberships[i].barangay_id = last'.brgy
               /\ memberships[i].is_creator
               /\ memberships[i].left_at = NoTime))
          => last'.ret = F3]_vars

\* C30: a claim that returns true leaves the invite used, by the claimant,
\* and the claimant's role no lower than it was, the resident and responder
\* roles being below admin and admin below super_admin
C30_ClaimOnlyElevates ==
  [][\A s \in Sessions :
       ( /\ sessions[s].op = "claim"
         /\ sessions[s].pc = "locked"
         /\ sessions'[s].pc = "done"
         /\ sessions'[s].ret = T3
         /\ sessions[s].actor # NULL )
       => LET a == sessions[s].actor
              level(r) == IF r = "super_admin" THEN 2 ELSE IF r = "admin" THEN 1 ELSE 0
          IN /\ invites'[sessions[s].code].used_at # NoTime
             /\ invites'[sessions[s].code].used_by = a
             /\ level(profiles'[a].role) >= level(profiles[a].role)]_vars

====
